---- MODULE Spec2Model ----
(***************************************************************************)
(* Model of ArxivAPIWrapper (Multi-Agent/arxiv_tools/get_arxiv_tools.py).  *)
(*                                                                         *)
(* A behaviour is one call of one public operation on a freshly configured *)
(* wrapper: run, get_summaries_as_docs, load, or lazy_load followed by the *)
(* consumer's requests for Documents.  Python strings are sequences of     *)
(* one-character strings.  The arxiv client, the PDF reader and the file   *)
(* system are the environment: what the client delivers, and whether and   *)
(* where it raises, is an input of the action that issues the search.      *)
(***************************************************************************)
EXTENDS Integers, Sequences, FiniteSets, TLC

\* ------------------------------------------------------------------ bounds
\* largest top_k_results and load_max_docs a configuration draws
MaxTopK == 2
\* longest query the caller passes
MaxQueryLen == 2
\* largest ARXIV_MAX_QUERY_LENGTH a configuration draws
MaxQueryCut == 1
\* a doc_content_chars_max shorter than every rendered block
SmallCharsMax == 2
\* a doc_content_chars_max longer than every summary and PDF text of the pool
LargeCharsMax == 40

\* ------------------------------------------------------------ Python values
\* Optional[int]: None or an int
None == [is_none |-> TRUE, value |-> 0]
Some(n) == [is_none |-> FALSE, value |-> n]

NL == "\n"

Min(a, b) == IF a < b THEN a ELSE b
Max(a, b) == IF a > b THEN a ELSE b

\* s[:n] with n an Optional[int]
Slice(s, n) ==
    IF n.is_none THEN s
    ELSE IF n.value >= 0 THEN SubSeq(s, 1, Min(n.value, Len(s)))
    ELSE SubSeq(s, 1, Max(Len(s) + n.value, 0))

\* s.replace(c, "") for a one-character c
Replace(s, c) == SelectSeq(s, LAMBDA x : x # c)

\* "".join(parts)
RECURSIVE Concat(_)
Concat(parts) ==
    IF parts = <<>> THEN <<>> ELSE Head(parts) \o Concat(Tail(parts))

\* sep.join(parts)
RECURSIVE Join(_, _)
Join(sep, parts) ==
    IF parts = <<>> THEN <<>>
    ELSE IF Len(parts) = 1 THEN Head(parts)
    ELSE Head(parts) \o sep \o Join(sep, Tail(parts))

\* str(n) zero-padded to two and four digits, as date.__str__ prints them
Digit(n) ==
    CASE n = 0 -> "0" [] n = 1 -> "1" [] n = 2 -> "2" [] n = 3 -> "3"
      [] n = 4 -> "4" [] n = 5 -> "5" [] n = 6 -> "6" [] n = 7 -> "7"
      [] n = 8 -> "8" [] n = 9 -> "9"
Pad2(n) == <<Digit(n \div 10), Digit(n % 10)>>
Pad4(n) == Pad2(n \div 100) \o Pad2(n % 100)

\* datetime.date(): the date portion of a timestamp
DateOf(dt) == [year |-> dt.year, month |-> dt.month, day |-> dt.day]
\* str(date): YYYY-MM-DD
StrDate(d) == Pad4(d.year) \o <<"-">> \o Pad2(d.month) \o <<"-">> \o Pad2(d.day)

\* ------------------------------------------------------- string literals
LitArxivException ==
    <<"A","r","x","i","v"," ","e","x","c","e","p","t","i","o","n",":"," ">>
LitNoGood ==
    <<"N","o"," ","g","o","o","d"," ","A","r","x","i","v"," ",
      "R","e","s","u","l","t"," ","w","a","s"," ","f","o","u","n","d">>
LitPublished == <<"P","u","b","l","i","s","h","e","d",":"," ">>
LitTitle == <<"T","i","t","l","e",":"," ">>
LitAuthors == <<"A","u","t","h","o","r","s",":"," ">>
LitSummary == <<"S","u","m","m","a","r","y",":"," ">>
CommaSpace == <<",", " ">>
BlockSep == <<NL, NL>>

\* ------------------------------------------------ the environment's papers
\* arxiv.Result records the client can deliver.  pdf is the text of the pages
\* of the PDF behind the result, as fitz extracts it.
Stamp(y, m, d, h) == [year |-> y, month |-> m, day |-> d, hour |-> h]
Paper1 ==
    [entry_id |-> <<"e", "1">>, title |-> <<"T">>,
     authors |-> <<[name |-> <<"A">>], [name |-> <<"B">>]>>,
     summary |-> <<"s">>,
     updated |-> Stamp(2024, 5, 7, 13), published |-> Stamp(2023, 11, 30, 9),
     comment |-> <<"c">>, journal_ref |-> <<"j">>, doi |-> <<"d">>,
     primary_category |-> <<"k">>, categories |-> << <<"k">>, <<"l">> >>,
     links |-> <<[href |-> <<"h", "1">>]>>,
     pdf |-> << <<"p">>, <<"q">> >>]
Paper2 ==
    [entry_id |-> <<"e", "2">>, title |-> <<"U">>,
     authors |-> <<[name |-> <<"C">>]>>,
     summary |-> <<"x", NL, NL, "y">>,
     updated |-> Stamp(2022, 1, 2, 0), published |-> Stamp(2022, 1, 1, 23),
     comment |-> <<>>, journal_ref |-> <<>>, doi |-> <<>>,
     primary_category |-> <<"l">>, categories |-> << <<"l">> >>,
     links |-> <<[href |-> <<"h", "2">>], [href |-> <<"h", "3">>]>>,
     pdf |-> << <<"u", "v", "w">> >>]
Paper3 ==
    [entry_id |-> <<"e", "3">>, title |-> <<"V", "W">>,
     authors |-> <<>>,
     summary |-> <<"z", "z", "z">>,
     updated |-> Stamp(2021, 12, 31, 23), published |-> Stamp(2021, 12, 31, 23),
     comment |-> <<>>, journal_ref |-> <<>>, doi |-> <<>>,
     primary_category |-> <<"k">>, categories |-> << <<"k">> >>,
     links |-> <<>>,
     pdf |-> <<>>]
Papers == {Paper1, Paper2, Paper3}

\* the kinds of error the arxiv client raises, with str(ex)
ArxivErrorKinds == {"ArxivError", "UnexpectedEmptyPageError", "HTTPError"}
StrError(kind) ==
    CASE kind = "ArxivError" -> <<"a", "e">>
      [] kind = "UnexpectedEmptyPageError" -> <<"e", "m", "p", "t", "y">>
      [] kind = "HTTPError" -> <<"5", "0", "0">>
      [] kind = "ImportError" -> <<"n", "o", " ", "f", "i", "t", "z">>

\* sequences of distinct papers of length at most n
DistinctSeqs(n) ==
    {s \in UNION {[1..k -> Papers] : k \in 0..n} :
        \A i, j \in 1..Len(s) : i # j => s[i] # s[j]}

\* What the client does with one search of max_results results: it raises
\* when the search is issued (issue), or it delivers the papers of delivered
\* one by one and then either stops (ending = "stop") or raises (ending).
ClientScripts(max_results) ==
    {[issue |-> k, delivered |-> <<>>, ending |-> "stop"] : k \in ArxivErrorKinds}
    \cup
    {[issue |-> "ok", delivered |-> d, ending |-> e] :
        d \in DistinctSeqs(max_results), e \in {"stop"} \cup ArxivErrorKinds}

QueryChars == {"a", ":", "-"}
Queries == UNION {[1..n -> QueryChars] : n \in 0..MaxQueryLen}

\* ------------------------------------------------------------------ state
VARIABLES
    top_k_results,            \* configuration (class attributes)
    ARXIV_MAX_QUERY_LENGTH,
    load_max_docs,
    load_all_available_meta,
    doc_content_chars_max,
    fitz_installed,           \* whether "import fitz" succeeds
    call,                     \* the operation called and its query argument
    searches,                 \* the arxiv.Search requests handed to the client
    client,                   \* the client's script for the search issued
    client_error,             \* the error the client has raised, or "none"
    gen,                      \* the frame of lazy_load's generator
    disk,                     \* the downloaded PDF files present on disk
    produced,                 \* the Documents the generator has yielded
    out                       \* what the call gave its caller

config == <<top_k_results, ARXIV_MAX_QUERY_LENGTH, load_max_docs,
            load_all_available_meta, doc_content_chars_max, fitz_installed>>
vars == <<top_k_results, ARXIV_MAX_QUERY_LENGTH, load_max_docs,
          load_all_available_meta, doc_content_chars_max, fitz_installed,
          call, searches, client, client_error, gen, disk, produced, out>>

NoScript == [issue |-> "ok", delivered |-> <<>>, ending |-> "stop"]
NoGen == [pc |-> "none", query |-> <<>>, pos |-> 0, doc_file_name |-> <<>>,
          exc |-> "none"]
NoOut == [kind |-> "none"]
Returned(v) == [kind |-> "returned", value |-> v]
Raised(e) == [kind |-> "raised", exc |-> e]

Init ==
    /\ top_k_results \in 1..MaxTopK
    /\ ARXIV_MAX_QUERY_LENGTH \in 1..MaxQueryCut
    /\ load_max_docs \in {1, MaxTopK}
    /\ load_all_available_meta \in BOOLEAN
    /\ doc_content_chars_max \in {None, Some(SmallCharsMax), Some(LargeCharsMax)}
    /\ fitz_installed \in BOOLEAN
    /\ call = [op |-> "idle", query |-> <<>>]
    /\ searches = <<>>
    /\ client = NoScript
    /\ client_error = "none"
    /\ gen = NoGen
    /\ disk = {}
    /\ produced = <<>>
    /\ out = NoOut

\* ------------------------------------------------------------ the wrapper
arxiv_exceptions == {"ArxivError", "UnexpectedEmptyPageError", "HTTPError"}

\* a _fetch_results that forgets the cut of the query
MutFetchNoCut(query) == [query |-> query, max_results |-> top_k_results]

\* _fetch_results: the Search the wrapper builds for a query
fetch_results(query) ==
    [query |-> Slice(query, Some(ARXIV_MAX_QUERY_LENGTH)),
     max_results |-> top_k_results]

\* ", ".join(a.name for a in result.authors)
AuthorsOf(result) ==
    Join(CommaSpace, [i \in 1..Len(result.authors) |-> result.authors[i].name])

\* Document(page_content=f"Arxiv exception: {ex}")
ErrorDoc(ex) ==
    [page_content |-> LitArxivException \o StrError(ex), metadata |-> <<>>]

\* the Document get_summaries_as_docs builds for one result
SummaryDoc(result) ==
    [page_content |-> result.summary,
     metadata |-> ("Entry ID" :> result.entry_id
                   @@ "Published" :> DateOf(result.updated)
                   @@ "Title" :> result.title
                   @@ "Authors" :> AuthorsOf(result))]

\* a get_summaries_as_docs that collects the Documents last result first
MutGetSummariesReversed(script) ==
    IF script.issue \in arxiv_exceptions
    THEN Returned(<<ErrorDoc(script.issue)>>)
    ELSE IF script.ending # "stop"
    THEN Raised(script.ending)
    ELSE Returned([i \in 1..Len(script.delivered) |->
            SummaryDoc(script.delivered[Len(script.delivered) + 1 - i])])

\* get_summaries_as_docs, given what the client does with the search
get_summaries_as_docs(script) ==
    IF script.issue \in arxiv_exceptions
    THEN Returned(<<ErrorDoc(script.issue)>>)
    ELSE IF script.ending # "stop"
    THEN Raised(script.ending)
    ELSE Returned([i \in 1..Len(script.delivered) |->
            SummaryDoc(script.delivered[i])])

\* the four-line block run renders for one result
RunBlock(result) ==
    LitPublished \o StrDate(DateOf(result.updated)) \o <<NL>>
    \o LitTitle \o result.title \o <<NL>>
    \o LitAuthors \o AuthorsOf(result) \o <<NL>>
    \o LitSummary \o result.summary

\* a join of the blocks with a single newline
MutRunJoinedSingleNewline(results) ==
    Join(<<NL>>, [i \in 1..Len(results) |-> RunBlock(results[i])])

\* "\n\n".join(docs), before the cut
RunJoined(results) ==
    Join(BlockSep, [i \in 1..Len(results) |-> RunBlock(results[i])])

\* run, given what the client does with the search
run(script) ==
    IF script.issue \in arxiv_exceptions
    THEN Returned(LitArxivException \o StrError(script.issue))
    ELSE IF script.ending # "stop"
    THEN Raised(script.ending)
    ELSE IF script.delivered # <<>>
    THEN Returned(Slice(RunJoined(script.delivered), doc_content_chars_max))
    ELSE Returned(LitNoGood)

\* the error the client raises while the whole sequence is consumed
ClientRaises(script) ==
    IF script.issue # "ok" THEN script.issue
    ELSE IF script.ending # "stop" THEN script.ending
    ELSE "none"

GetSummariesAsDocs ==
    /\ call.op = "idle"
    /\ \E query \in Queries, script \in ClientScripts(top_k_results) :
        /\ call' = [op |-> "get_summaries_as_docs", query |-> query]
        /\ searches' = Append(searches, fetch_results(query))
        /\ client' = script
        /\ client_error' = ClientRaises(script)
        /\ out' = get_summaries_as_docs(script)
    /\ UNCHANGED <<config, gen, disk, produced>>

Run ==
    /\ call.op = "idle"
    /\ \E query \in Queries, script \in ClientScripts(top_k_results) :
        /\ call' = [op |-> "run", query |-> query]
        /\ searches' = Append(searches, fetch_results(query))
        /\ client' = script
        /\ client_error' = ClientRaises(script)
        /\ out' = run(script)
    /\ UNCHANGED <<config, gen, disk, produced>>

\* ---------------------------------------------------- lazy_load and load
\* query.replace(":", "").replace("-", "")
StripQuery(query) == Replace(Replace(query, ":"), "-")

\* result.download_pdf(): the path of the file it writes
DownloadPdf(result) == result.entry_id \o <<".", "p", "d", "f">>

\* "".join(page.get_text() for page in doc_file)
ExtractText(result) == Concat(result.pdf)

\* an extra_metadata that ignores load_all_available_meta
MutExtraMetadataAlways(result) ==
    ("entry_id" :> result.entry_id
     @@ "published_first_time" :> StrDate(DateOf(result.published))
     @@ "comment" :> result.comment
     @@ "journal_ref" :> result.journal_ref
     @@ "doi" :> result.doi
     @@ "primary_category" :> result.primary_category
     @@ "categories" :> result.categories
     @@ "links" :> [i \in 1..Len(result.links) |-> result.links[i].href])

\* extra_metadata: the extended fields, in full-metadata mode only
ExtraMetadata(result) ==
    IF load_all_available_meta
    THEN ("entry_id" :> result.entry_id
          @@ "published_first_time" :> StrDate(DateOf(result.published))
          @@ "comment" :> result.comment
          @@ "journal_ref" :> result.journal_ref
          @@ "doi" :> result.doi
          @@ "primary_category" :> result.primary_category
          @@ "categories" :> result.categories
          @@ "links" :> [i \in 1..Len(result.links) |-> result.links[i].href])
    ELSE <<>>

\* {"Published": ..., "Title": ..., "Authors": ..., "Summary": ..., **extra}
LoadMetadata(result) ==
    ExtraMetadata(result)
    @@ ("Published" :> StrDate(DateOf(result.updated))
        @@ "Title" :> result.title
        @@ "Authors" :> AuthorsOf(result)
        @@ "Summary" :> result.summary)

\* the Document lazy_load yields for one result
LoadDoc(result) ==
    [page_content |-> Slice(ExtractText(result), doc_content_chars_max),
     metadata |-> LoadMetadata(result)]

\* The part of the state the generator's body reads and writes.
Machine == [gen |-> gen, disk |-> disk, produced |-> produced,
            searches |-> searches, client_error |-> client_error]

\* "for result in results": the client delivers the next result, stops or
\* raises; for a result the body runs up to its yield.
LoopHead(m, script) ==
    IF m.gen.pos < Len(script.delivered)
    THEN LET result == script.delivered[m.gen.pos + 1]
             doc_file_name == DownloadPdf(result)
         IN [m EXCEPT !.gen.pc = "suspended",
                      !.gen.pos = @ + 1,
                      !.gen.doc_file_name = doc_file_name,
                      !.disk = @ \cup {doc_file_name},
                      !.produced = Append(@, LoadDoc(result))]
    ELSE IF script.ending = "stop"
    THEN [m EXCEPT !.gen.pc = "finished"]
    ELSE [m EXCEPT !.gen.pc = "raised", !.gen.exc = script.ending,
                   !.client_error = script.ending]

\* a body that imports fitz only after it has issued the search
MutStartBodyImportLate(m, script) ==
    LET issued == [m EXCEPT !.searches =
                       Append(@, fetch_results(StripQuery(m.gen.query)))]
    IN IF script.issue # "ok"
       THEN [issued EXCEPT !.gen.pc = "raised", !.gen.exc = script.issue,
                           !.client_error = script.issue]
       ELSE IF ~fitz_installed
       THEN [issued EXCEPT !.gen.pc = "raised", !.gen.exc = "ImportError"]
       ELSE LoopHead(issued, script)

\* The body from its first line to the first yield, return or raise.
StartBody(m, script) ==
    IF ~fitz_installed
    THEN [m EXCEPT !.gen.pc = "raised", !.gen.exc = "ImportError"]
    ELSE LET issued == [m EXCEPT !.searches =
                            Append(@, fetch_results(StripQuery(m.gen.query)))]
         IN IF script.issue # "ok"
            THEN [issued EXCEPT !.gen.pc = "raised", !.gen.exc = script.issue,
                                !.client_error = script.issue]
            ELSE LoopHead(issued, script)

\* The body resumed after a yield: os.remove(doc_file_name), then the loop.
ResumeBody(m, script) ==
    LoopHead([m EXCEPT !.disk = @ \ {m.gen.doc_file_name}], script)

\* next(generator)
Resume(m, script) ==
    IF m.gen.pc = "created" THEN StartBody(m, script) ELSE ResumeBody(m, script)

\* list(generator): next() until the generator returns or raises
RECURSIVE Drain(_, _)
Drain(m, script) ==
    IF m.gen.pc \in {"created", "suspended"}
    THEN Drain(Resume(m, script), script)
    ELSE m

NewGen(query) == [NoGen EXCEPT !.pc = "created", !.query = query]

\* calling lazy_load makes the generator; none of its body runs
LazyLoad ==
    /\ call.op = "idle"
    /\ \E query \in Queries :
        /\ call' = [op |-> "lazy_load", query |-> query]
        /\ gen' = NewGen(query)
    /\ out' = [kind |-> "generator"]
    /\ UNCHANGED <<config, searches, client, client_error, disk, produced>>

\* the consumer asks the generator for the next Document
LazyNext ==
    /\ call.op = "lazy_load"
    /\ gen.pc \in {"created", "suspended"}
    /\ \E script \in IF gen.pc = "created" THEN ClientScripts(top_k_results)
                                           ELSE {client} :
        LET m == Resume(Machine, script)
        IN /\ gen' = m.gen
           /\ disk' = m.disk
           /\ produced' = m.produced
           /\ searches' = m.searches
           /\ client_error' = m.client_error
           /\ client' = IF m.searches # <<>> THEN script ELSE client
    /\ UNCHANGED <<config, call, out>>

\* the consumer stops and drops the generator: it is closed where it is
\* suspended, so the statements after the yield never run
LazyClose ==
    /\ call.op = "lazy_load"
    /\ gen.pc \in {"created", "suspended"}
    /\ gen' = [gen EXCEPT !.pc = "closed"]
    /\ UNCHANGED <<config, call, searches, client, client_error, disk,
                   produced, out>>

\* load: list(self.lazy_load(query))
load(m) ==
    IF m.gen.pc = "raised" THEN Raised(m.gen.exc) ELSE Returned(m.produced)

Load ==
    /\ call.op = "idle"
    /\ \E query \in Queries, script \in ClientScripts(top_k_results) :
        LET m == Drain([Machine EXCEPT !.gen = NewGen(query)], script)
        IN /\ call' = [op |-> "load", query |-> query]
           /\ gen' = m.gen
           /\ disk' = m.disk
           /\ produced' = m.produced
           /\ searches' = m.searches
           /\ client_error' = m.client_error
           /\ client' = IF m.searches # <<>> THEN script ELSE client
           /\ out' = load(m)
    /\ UNCHANGED config

Next == GetSummariesAsDocs \/ Run \/ Load \/ LazyLoad \/ LazyNext \/ LazyClose

Spec == Init /\ [][Next]_vars

\* ------------------------------------------------- vocabulary of the claims
IsPrefix(prefix, s) ==
    Len(prefix) <= Len(s) /\ SubSeq(s, 1, Len(prefix)) = prefix

Contains(s, sep) ==
    \E i \in 1..(Len(s) - Len(sep) + 1) : SubSeq(s, i, i + Len(sep) - 1) = sep

\* str.split(sep): the pieces between the occurrences of sep, found left to
\* right without overlap
RECURSIVE SplitFrom(_, _, _, _)
SplitFrom(s, sep, i, piece) ==
    IF i > Len(s) THEN <<piece>>
    ELSE IF i + Len(sep) - 1 <= Len(s) /\ SubSeq(s, i, i + Len(sep) - 1) = sep
    THEN <<piece>> \o SplitFrom(s, sep, i + Len(sep), <<>>)
    ELSE SplitFrom(s, sep, i + 1, Append(piece, s[i]))
Split(s, sep) == SplitFrom(s, sep, 1, <<>>)

FirstChars(s, n) == [i \in 1..(IF n < Len(s) THEN n ELSE Len(s)) |-> s[i]]
WithoutColonAndDash(s) == SelectSeq(s, LAMBDA c : c \notin {":", "-"})

SummaryKeys == {"Entry ID", "Published", "Title", "Authors"}
DocumentedKeys == {"Published", "Title", "Authors", "Summary"}
ExtendedKeys == {"entry_id", "published_first_time", "comment", "journal_ref",
                 "doi", "primary_category", "categories", "links"}

SummaryOps == {"run", "get_summaries_as_docs"}
FullTextOps == {"load", "lazy_load"}

\* the client delivered its whole sequence and stopped
ClientSucceeded ==
    searches # <<>> /\ client.issue = "ok" /\ client.ending = "stop"

\* the Documents the caller has received
ReceivedDocs ==
    IF call.op \in {"get_summaries_as_docs", "load"} /\ out.kind = "returned"
    THEN out.value
    ELSE IF call.op = "lazy_load" THEN produced
    ELSE <<>>

IsSentinelDoc(doc) == IsPrefix(LitArxivException, doc.page_content)

\* ------------------------------------------------------------------ C1
\* C1: when the search client raises a recognized search error during run or
\* get_summaries_as_docs, at the issue of the search or while the results are
\* consumed, no exception escapes: run returns a string starting with
\* "Arxiv exception:" and get_summaries_as_docs returns one Document whose
\* content starts with it.
C1_SearchErrorNeverEscapes ==
    (call.op \in SummaryOps /\ client_error \in arxiv_exceptions) =>
        /\ out.kind = "returned"
        /\ call.op = "run" => IsPrefix(LitArxivException, out.value)
        /\ call.op = "get_summaries_as_docs" =>
              Len(out.value) = 1 /\ IsSentinelDoc(out.value[1])

\* ------------------------------------------------------------------ C2
\* C2: when the search client raises a recognized search error during load or
\* lazy_load, the error does not reach the caller as an exception: a Document
\* carrying "Arxiv exception: ..." is handed back instead.
C2_LoadErrorBecomesSentinel ==
    (call.op \in FullTextOps /\ client_error \in arxiv_exceptions) =>
        /\ out.kind # "raised"
        /\ gen.pc # "raised"
        /\ \E i \in 1..Len(ReceivedDocs) : IsSentinelDoc(ReceivedDocs[i])

\* ------------------------------------------------------------------ C3
\* C3: in full-text mode, on the success path, once the Document of a result
\* has been produced to the consumer, the PDF file downloaded for that result
\* is not on disk.
C3_TempFileGoneOnceProduced ==
    (call.op \in FullTextOps /\ ClientSucceeded) =>
        \A i \in 1..Len(produced) :
            DownloadPdf(client.delivered[i]) \notin disk

\* ------------------------------------------------------------------ C4
\* C4: when doc_content_chars_max is a number, every Document an operation
\* hands back for a result of the search has content of at most
\* doc_content_chars_max characters.
C4_ContentWithinLimit ==
    (~doc_content_chars_max.is_none /\ client_error = "none") =>
        \A i \in 1..Len(ReceivedDocs) :
            Len(ReceivedDocs[i].page_content) <= doc_content_chars_max.value

\* ------------------------------------------------------------------ C5
\* C5 (as stated): for every operation and every query longer than
\* ARXIV_MAX_QUERY_LENGTH = N, the query submitted to the client is the first
\* N characters of the caller's query.
C5_SubmittedIsPrefixOfInput ==
    \A i \in 1..Len(searches) :
        Len(call.query) > ARXIV_MAX_QUERY_LENGTH =>
            searches[i].query = FirstChars(call.query, ARXIV_MAX_QUERY_LENGTH)

\* C5 (amended): for every query longer than N, run and get_summaries_as_docs
\* submit the first N characters of the caller's query; load and lazy_load
\* submit the first N characters of the caller's query with its ":" and "-"
\* removed (all of it when fewer than N characters are left).
C5_SubmittedQuery ==
    \A i \in 1..Len(searches) :
        Len(call.query) > ARXIV_MAX_QUERY_LENGTH =>
            searches[i].query =
                IF call.op \in SummaryOps
                THEN FirstChars(call.query, ARXIV_MAX_QUERY_LENGTH)
                ELSE FirstChars(WithoutColonAndDash(call.query),
                                ARXIV_MAX_QUERY_LENGTH)

\* C5 witness: load or lazy_load has submitted a search for a query longer
\* than N whose first N characters hold a ":" or a "-".
C5_Witness ==
    /\ call.op \in FullTextOps
    /\ searches # <<>>
    /\ Len(call.query) > ARXIV_MAX_QUERY_LENGTH
    /\ call.query[1] \in {":", "-"}

C7_RunBlocksAndLimit ==
    (call.op = "run" /\ ClientSucceeded) =>
        /\ out.kind = "returned"
        /\ client.delivered # <<>> =>
              Len(Split(RunJoined(client.delivered), BlockSep))
                  = Len(client.delivered)
        /\ ~doc_content_chars_max.is_none =>
              Len(out.value) <= doc_content_chars_max.value

\* C7 (amended): for every non-empty result set, the string run returns is
\* never longer than doc_content_chars_max, and when no result's rendered
\* block holds a double newline of its own, the string built before the cut
\* splits on the double newline into as many blocks as there were results.
C7_RunBlocksAndLimitAmended ==
    (call.op = "run" /\ ClientSucceeded /\ client.delivered # <<>>) =>
        /\ out.kind = "returned"
        /\ (\A i \in 1..Len(client.delivered) :
                ~Contains(RunBlock(client.delivered[i]), BlockSep)) =>
              Len(Split(RunJoined(client.delivered), BlockSep))
                  = Len(client.delivered)
        /\ ~doc_content_chars_max.is_none =>
              Len(out.value) <= doc_content_chars_max.value

\* C7 witness: run has returned for two results whose blocks hold no double
\* newline, cut to a doc_content_chars_max shorter than the joined string.
C7_Witness ==
    /\ call.op = "run"
    /\ ClientSucceeded
    /\ Len(client.delivered) = 2
    /\ \A i \in 1..2 : ~Contains(RunBlock(client.delivered[i]), BlockSep)
    /\ out.kind = "returned"
    /\ ~doc_content_chars_max.is_none
    /\ doc_content_chars_max.value < Len(RunJoined(client.delivered))
    /\ Len(out.value) = doc_content_chars_max.value

C9_LoadMetadataKeys ==
    call.op \in FullTextOps =>
        \A i \in 1..Len(ReceivedDocs) :
            DOMAIN ReceivedDocs[i].metadata =
                SummaryKeys
                \cup (IF load_all_available_meta THEN ExtendedKeys ELSE {})

\* C9 (amended): the metadata keys of every Document of load / lazy_load are
\* Published, Title, Authors and Summary (no Entry ID), together with the
\* extended keys if and only if load_all_available_meta is set.
C9_LoadMetadataKeysAmended ==
    call.op \in FullTextOps =>
        \A i \in 1..Len(ReceivedDocs) :
            DOMAIN ReceivedDocs[i].metadata =
                DocumentedKeys
                \cup (IF load_all_available_meta THEN ExtendedKeys ELSE {})

\* C9 witness: load has returned two Documents with full-metadata mode off.
C9_Witness ==
    /\ call.op = "load"
    /\ Len(ReceivedDocs) = 2
    /\ ~load_all_available_meta

\* ------------------------------------------------------------------ C10
\* C10: load and lazy_load never produce more than load_max_docs Documents.
C10_LoadMaxDocsLimits ==
    call.op \in FullTextOps => Len(ReceivedDocs) <= load_max_docs

====
